---- MODULE Spec2Model ----
(***************************************************************************)
(* Model of samdaviesudina/guitars: src/guitars.py (pitch model, guitar    *)
(* geometry, hand positions, enumeration, pairing search, open-string      *)
(* filter, canonical ordering) and src/main.py (the driver pipeline).      *)
(*                                                                         *)
(* A Placement is a record [string, fret]; a HandPosition is the set of    *)
(* its placements (the frozen dataclass wraps exactly one frozenset); a    *)
(* Note is a record [pitch, scale_degree]; a PairOfHandPositions is a      *)
(* record [first_hand_position, second_hand_position].                     *)
(***************************************************************************)
EXTENDS Integers, Sequences, FiniteSets, TLC

\* ------------------------------------------------------------------------
\* Program constants
\* ------------------------------------------------------------------------
NUMBER_OF_FINGERS_TO_CONSIDER == 4
MAXIMUM_SPAN_OF_FRETS == 3

\* Guitar.STRINGS, in the order the class lists them
STRINGS == <<6, 5, 4, 3, 2, 1>>

\* String.STRING_NUMBER_TO_NOTE, the pitch each entry is built from
STRING_NUMBER_TO_NOTE == [n \in 1..6 |->
    CASE n = 1 -> 28 [] n = 2 -> 23 [] n = 3 -> 19
      [] n = 4 -> 14 [] n = 5 -> 9  [] n = 6 -> 4]

\* ------------------------------------------------------------------------
\* Bounds of the model
\* ------------------------------------------------------------------------
\* largest number_of_frets_to_consider handed to the enumeration
MaxFrets == 6

\* largest number of frets the driver is run with
MaxMainFrets == 4

\* hand positions handed to the queries have their placements on frets
\* 0..MaxQueryFret of the six strings
MaxQueryFret == 3

\* longest list of solutions handed to the open-string filter
MaxSolutions == 2

\* ------------------------------------------------------------------------
\* Small helpers
\* ------------------------------------------------------------------------
Max2(a, b) == IF a >= b THEN a ELSE b

SetMax(S) == CHOOSE m \in S : \A e \in S : e <= m

SetMin(S) == CHOOSE m \in S : \A e \in S : m <= e

Range(seq) == {seq[k] : k \in 1..Len(seq)}

\* ------------------------------------------------------------------------
\* Note
\* ------------------------------------------------------------------------
from_pitch(pitch) == [pitch |-> pitch, scale_degree |-> pitch % 12]

transpose_upwards_by(note, semitones) == from_pitch(note.pitch + semitones)

\* Note.__lt__ that compares the pitch classes
NoteLt_by_scale_degree(a, b) == a.scale_degree < b.scale_degree

\* Note.__lt__
NoteLt(a, b) == a.pitch < b.pitch

\* ------------------------------------------------------------------------
\* String
\* ------------------------------------------------------------------------
open_string_note(string) == from_pitch(STRING_NUMBER_TO_NOTE[string])

\* String.note that transposes by the fret number, without the + 1
note_at_by_fret_number(string, fret) == transpose_upwards_by(open_string_note(string), fret)

\* String.note(fret) with a fret
note_at(string, fret) == transpose_upwards_by(open_string_note(string), fret + 1)

\* ------------------------------------------------------------------------
\* Placement / HandPosition
\* ------------------------------------------------------------------------
Placement(string, fret) == [string |-> string, fret |-> fret]

involves_too_many_fingers(h) == Cardinality(h) > NUMBER_OF_FINGERS_TO_CONSIDER

\* touched_strings is a list with one entry per placement, so its length is
\* the number of placements; set(touched_strings) is the set of strings.
a_string_is_touched_twice(h) ==
    Cardinality({p.string : p \in h}) < Cardinality(h)

\* the span rule without the - 1
the_span_is_too_wide_by_one(h) ==
    IF h = {} THEN FALSE
    ELSE LET fret_numbers == {p.fret : p \in h}
         IN  SetMax(fret_numbers) - SetMin(fret_numbers) > MAXIMUM_SPAN_OF_FRETS

the_span_is_too_wide(h) ==
    IF h = {} THEN FALSE
    ELSE LET fret_numbers == {p.fret : p \in h}
         IN  SetMax(fret_numbers) - SetMin(fret_numbers) > MAXIMUM_SPAN_OF_FRETS - 1

is_valid(h) ==
    IF involves_too_many_fingers(h) THEN FALSE
    ELSE IF a_string_is_touched_twice(h) THEN FALSE
    ELSE IF the_span_is_too_wide(h) THEN FALSE
    ELSE TRUE

touches(h, string) == \E p \in h : p.string = string

\* the fret of the first placement found on the string; on a hand position
\* that is valid there is exactly one such placement
get_fret_on(h, string) == (CHOOSE p \in h : p.string = string).fret

\* ------------------------------------------------------------------------
\* Enumeration
\* ------------------------------------------------------------------------
generate_all_placements(n) ==
    {Placement(STRINGS[k], f) : k \in 1..Len(STRINGS), f \in 0..(n - 1)}

filter_placements_given_lowest_fret(placements, fret, maximum_span) ==
    {p \in placements : p.fret >= fret /\ p.fret <= fret + maximum_span - 1}

RECURSIVE all_hand_positions_with_n_fingers(_, _)
all_hand_positions_with_n_fingers(placements, n) ==
    IF n = 0 THEN {{}}
    ELSE LET previous == all_hand_positions_with_n_fingers(placements, n - 1)
         IN  UNION {{hp \cup {p} : hp \in {h \in previous : p \notin h}}
                      : p \in placements}

\* the count of windows without the + 1
highest_fret_one_short(n) == Max2(n - MAXIMUM_SPAN_OF_FRETS, MAXIMUM_SPAN_OF_FRETS)

\* number of lowest frets the sliding windows start on
highest_fret(n) == Max2(n - MAXIMUM_SPAN_OF_FRETS + 1, MAXIMUM_SPAN_OF_FRETS)

filter_out_unreasonable_hand_positions(hps) == {hp \in hps : is_valid(hp)}

\* ------------------------------------------------------------------------
\* Guitar and the note queries of a hand position
\* ------------------------------------------------------------------------
\* a validity guard that looks at the number of fingers only
ensure_is_valid_raises_on_fingers_only(h) == involves_too_many_fingers(h)

\* HandPosition._ensure_is_valid raises exactly when this holds
ensure_is_valid_raises(h) == ~is_valid(h)

\* Guitar.get_notes: one note per entry of Guitar.STRINGS
Guitar_get_notes(h) ==
    [k \in 1..Len(STRINGS) |->
        IF touches(h, STRINGS[k])
        THEN note_at(STRINGS[k], get_fret_on(h, STRINGS[k]))
        ELSE open_string_note(STRINGS[k])]

RECURSIVE SortAscending(_)
SortAscending(S) ==
    IF S = {} THEN <<>>
    ELSE <<SetMin(S)>> \o SortAscending(S \ {SetMin(S)})

\* Guitar.get_open_strings: the untouched strings sorted by number
Guitar_get_open_strings(h) ==
    SortAscending({STRINGS[k] : k \in {i \in 1..Len(STRINGS) : ~touches(h, STRINGS[i])}})

\* HandPosition.get_notes / get_open_strings, when _ensure_is_valid passes
get_notes(h) == Guitar_get_notes(h)

get_open_strings(h) == Guitar_get_open_strings(h)

get_number_of_distinct_notes(h) ==
    Cardinality({get_notes(h)[k].scale_degree : k \in 1..Len(STRINGS)})

\* sorted(self.get_notes())[0]: a note no other note is below
get_lowest_note(h) ==
    LET notes == Range(get_notes(h))
    IN  CHOOSE n \in notes : \A m \in notes : ~NoteLt(m, n)

\* the comparison with its sides exchanged
lowest_note_is_lower_exchanged(h, other) == NoteLt(get_lowest_note(other), get_lowest_note(h))

lowest_note_is_lower(h, other) == NoteLt(get_lowest_note(h), get_lowest_note(other))

\* ------------------------------------------------------------------------
\* PairOfHandPositions
\* ------------------------------------------------------------------------
PairOfHandPositions(a, b) == [first_hand_position |-> a, second_hand_position |-> b]

\* the completeness test on the notes of the first hand taken twice
produces_all_the_notes_first_twice(pair) ==
    LET all_notes == get_notes(pair.first_hand_position)
                       \o get_notes(pair.first_hand_position)
    IN  Cardinality({all_notes[k].scale_degree : k \in 1..Len(all_notes)}) = 12

\* the completeness test that counts the notes instead of the pitch classes
produces_all_the_notes_counting_notes(pair) ==
    LET all_notes == get_notes(pair.first_hand_position)
                       \o get_notes(pair.second_hand_position)
    IN  Len(all_notes) = 12

produces_all_the_notes(pair) ==
    LET all_notes == get_notes(pair.first_hand_position)
                       \o get_notes(pair.second_hand_position)
    IN  Cardinality({all_notes[k].scale_degree : k \in 1..Len(all_notes)}) = 12

\* the field-by-field equality a dataclass generates
PairEq_by_fields(p, q) ==
    /\ p.first_hand_position = q.first_hand_position
    /\ p.second_hand_position = q.second_hand_position

\* PairOfHandPositions.__eq__
PairEq(p, q) ==
    {p.first_hand_position, p.second_hand_position}
        = {q.first_hand_position, q.second_hand_position}

get_all_open_strings(pair) ==
    Range(get_open_strings(pair.first_hand_position))
        \cup Range(get_open_strings(pair.second_hand_position))

organise_with_lowest_hand_first(pair) ==
    IF lowest_note_is_lower(pair.first_hand_position, pair.second_hand_position)
    THEN pair
    ELSE PairOfHandPositions(pair.second_hand_position, pair.first_hand_position)

\* the filter with containment in place of equality
filter_out_solutions_containing_the_open_strings(solutions, desired_open_strings) ==
    LET Keep(pair) == desired_open_strings \subseteq get_all_open_strings(pair)
    IN  SelectSeq(solutions, Keep)

filter_out_solutions_without_the_right_open_strings(solutions, desired_open_strings) ==
    LET Keep(pair) == get_all_open_strings(pair) = desired_open_strings
    IN  SelectSeq(solutions, Keep)

\* ------------------------------------------------------------------------
\* The enumeration and the pairing search as whole functions
\* ------------------------------------------------------------------------
generate_hand_positions_for_a_set_of_placements(placements) ==
    UNION {all_hand_positions_with_n_fingers(placements, i)
             : i \in 0..NUMBER_OF_FINGERS_TO_CONSIDER}

generate_all_potential_hand_positions(n) ==
    UNION {generate_hand_positions_for_a_set_of_placements(
               filter_placements_given_lowest_fret(
                   generate_all_placements(n), f, MAXIMUM_SPAN_OF_FRETS))
             : f \in 0..(highest_fret(n) - 1)}

generate_all_hand_positions(n) ==
    filter_out_unreasonable_hand_positions(generate_all_potential_hand_positions(n))

filter_out_hand_positions_with_repeated_notes(hps) ==
    {hp \in hps : get_number_of_distinct_notes(hp) = 6}

\* The result of the two nested loops over hand_positions when the set is
\* iterated by increasing position[h]: (a, b) is met before (b, a) exactly
\* when a comes before b, and the pair met first is the one that is stored.
work_out_successful_pairs_of_hand_positions(hps, position) ==
    {PairOfHandPositions(c[1], c[2]) :
        c \in {d \in hps \X hps :
                  /\ position[d[1]] <= position[d[2]]
                  /\ produces_all_the_notes(PairOfHandPositions(d[1], d[2]))}}

\* a number that tells the hand positions with one fret below 8 on a
\* string apart; the driver's sets of hand positions are iterated by it
IterationRank(h) ==
    LET digit(s) == IF touches(h, s) THEN get_fret_on(h, s) + 1 ELSE 0
    IN  digit(6) + 9 * digit(5) + 81 * digit(4) + 729 * digit(3)
          + 6561 * digit(2) + 59049 * digit(1)

\* the order in which the driver's set of solutions is iterated: by the
\* rank of the first hand, then by the rank of the second
PairBefore(d, e) ==
    \/ IterationRank(d.first_hand_position) < IterationRank(e.first_hand_position)
    \/ /\ d.first_hand_position = e.first_hand_position
       /\ IterationRank(d.second_hand_position) < IterationRank(e.second_hand_position)

\* the pairs of a set as the list an iteration over the set yields
RECURSIVE ListOf(_)
ListOf(S) ==
    IF S = {} THEN <<>>
    ELSE LET pivot == CHOOSE e \in S : TRUE
             earlier == {d \in S : PairBefore(d, pivot)}
         IN  ListOf(earlier) \o <<pivot>> \o ListOf((S \ earlier) \ {pivot})

\* ------------------------------------------------------------------------
\* State
\* ------------------------------------------------------------------------
VARIABLES
    pc,                           \* position in the running function
    number_of_frets_to_consider,  \* argument of the enumeration
    lowest_fret,                  \* window loop (guitars.py:358)
    fingers,                      \* loop variable i (guitars.py:343)
    window_hand_positions,        \* hand_positions (guitars.py:342)
    all_hand_positions,           \* all_hand_positions (guitars.py:353)
    hand_positions,               \* argument of the pairing search
    order,                        \* the order in which the set is iterated
    x,                            \* outer loop position (guitars.py:403)
    y,                            \* inner loop position (guitars.py:404)
    successful_hand_positions,    \* guitars.py:398
    all_good_solutions,           \* main.py:49
    organised_solutions,          \* main.py:54
    op,                           \* the function that was called, or "none"
    args,                         \* its arguments, by parameter name
    result                        \* [raised, value] once it has returned

genVars == <<number_of_frets_to_consider, lowest_fret, fingers,
             window_hand_positions, all_hand_positions>>

pairVars == <<hand_positions, order, x, y, successful_hand_positions,
              all_good_solutions, organised_solutions>>

callVars == <<op, args, result>>

vars == <<pc, genVars, pairVars, callVars>>

NoResult == [raised |-> FALSE, value |-> "none"]

Returned(v) == [raised |-> FALSE, value |-> v]

Raised == [raised |-> TRUE, value |-> "Exception"]

GenIdle ==
    /\ number_of_frets_to_consider = 0
    /\ lowest_fret = 0
    /\ fingers = 0
    /\ window_hand_positions = {}
    /\ all_hand_positions = {}

PairIdle ==
    /\ hand_positions = {}
    /\ order = <<>>
    /\ x = 1
    /\ y = 1
    /\ successful_hand_positions = {}
    /\ all_good_solutions = <<>>
    /\ organised_solutions = <<>>

CallIdle ==
    /\ op = "none"
    /\ args = [none |-> 0]
    /\ result = NoResult

\* ------------------------------------------------------------------------
\* generate_all_hand_positions, one step per finger count of a window
\* ------------------------------------------------------------------------
InitGen ==
    /\ number_of_frets_to_consider \in 0..MaxFrets
    /\ pc = "window"
    /\ lowest_fret = 0
    /\ fingers = 0
    /\ window_hand_positions = {}
    /\ all_hand_positions = {}
    /\ PairIdle
    /\ CallIdle

\* one iteration of `for i in range(NUMBER_OF_FINGERS_TO_CONSIDER + 1)`
AddFingers ==
    /\ pc = "window"
    /\ fingers <= NUMBER_OF_FINGERS_TO_CONSIDER
    /\ LET placements_starting_on_this_fret ==
               filter_placements_given_lowest_fret(
                   generate_all_placements(number_of_frets_to_consider),
                   lowest_fret, MAXIMUM_SPAN_OF_FRETS)
       IN  window_hand_positions' = window_hand_positions \cup
               all_hand_positions_with_n_fingers(
                   placements_starting_on_this_fret, fingers)
    /\ fingers' = fingers + 1
    /\ UNCHANGED <<pc, number_of_frets_to_consider, lowest_fret, all_hand_positions, pairVars, callVars>>

\* the window's hand positions are complete: union them in, next window
NextWindow ==
    /\ pc = "window"
    /\ fingers > NUMBER_OF_FINGERS_TO_CONSIDER
    /\ all_hand_positions' = all_hand_positions \cup window_hand_positions
    /\ window_hand_positions' = {}
    /\ fingers' = 0
    /\ lowest_fret' = lowest_fret + 1
    /\ pc' = IF lowest_fret + 1 < highest_fret(number_of_frets_to_consider)
             THEN "window" ELSE "filter"
    /\ UNCHANGED <<number_of_frets_to_consider, pairVars, callVars>>

\* filter_out_unreasonable_hand_positions on the union, and return
FilterUnreasonable ==
    /\ pc = "filter"
    /\ all_hand_positions' = filter_out_unreasonable_hand_positions(all_hand_positions)
    /\ pc' = "generated"
    /\ UNCHANGED <<number_of_frets_to_consider, lowest_fret, fingers,
                   window_hand_positions, pairVars, callVars>>

NextGen == AddFingers \/ NextWindow \/ FilterUnreasonable

SpecGen == InitGen /\ [][NextGen]_vars

\* the steps of the enumeration end on the value of the whole function
EnumerationStepsComputeTheFunction ==
    pc = "generated" =>
        all_hand_positions = generate_all_hand_positions(number_of_frets_to_consider)

\* ------------------------------------------------------------------------
\* C1: when generate_all_hand_positions(F) has returned, its result is
\* exactly the set of hand positions over the placements (string 1..6,
\* fret 0..F-1) that is_valid accepts: nothing in it uses another placement
\* or is invalid, the empty hand position is in it, and every valid hand
\* position is in it.  is_valid rejects whatever has more than 4 placements,
\* so the valid hand positions are all of the form {p1, p2, p3, p4} with the
\* p's not necessarily distinct.  For F = 0 the result is {empty}.
\* ------------------------------------------------------------------------
C1_GenerateIsExactlyTheValid ==
    pc = "generated" =>
        LET P == {Placement(s, f) : s \in 1..6, f \in 0..(number_of_frets_to_consider - 1)}
        IN  /\ \A h \in all_hand_positions : h \subseteq P /\ is_valid(h)
            /\ {} \in all_hand_positions
            /\ \A p1 \in P, p2 \in P, p3 \in P, p4 \in P :
                   is_valid({p1, p2, p3, p4}) => {p1, p2, p3, p4} \in all_hand_positions
            /\ (number_of_frets_to_consider = 0 => all_hand_positions = {{}})

\* a returned hand position of four fingers spanning frets F-3..F-1 of a
\* fretboard longer than the first three windows
C1_Witness ==
    /\ pc = "generated"
    /\ number_of_frets_to_consider = 6
    /\ \E h \in all_hand_positions :
          /\ Cardinality(h) = 4
          /\ {p.fret : p \in h} = {3, 5}

\* ------------------------------------------------------------------------
\* The queries of one hand position: is_valid, get_notes, get_open_strings
\* called on an arbitrary set of placements
\* ------------------------------------------------------------------------
\* every set of placements on strings 1..n and frets 0..MaxQueryFret that
\* has at most one placement more than there are fingers, built string by
\* string
RECURSIVE HandsOnStrings(_)
HandsOnStrings(n) ==
    IF n = 0 THEN {{}}
    ELSE {hf[1] \cup {Placement(n, f) : f \in hf[2]} :
            hf \in {c \in HandsOnStrings(n - 1) \X SUBSET (0..MaxQueryFret) :
                       Cardinality(c[1]) + Cardinality(c[2])
                           <= NUMBER_OF_FINGERS_TO_CONSIDER + 1}}

InitHand ==
    /\ pc = "call"
    /\ GenIdle
    /\ PairIdle
    /\ op = "none"
    /\ \E h \in HandsOnStrings(Len(STRINGS)) : args = [hand_position |-> h]
    /\ result = NoResult

CallIsValid ==
    /\ pc = "call"
    /\ op' = "is_valid"
    /\ result' = Returned(is_valid(args.hand_position))
    /\ pc' = "returned"
    /\ UNCHANGED <<args, genVars, pairVars>>

CallGetNotes ==
    /\ pc = "call"
    /\ op' = "get_notes"
    /\ result' = IF ensure_is_valid_raises(args.hand_position)
                 THEN Raised
                 ELSE Returned(get_notes(args.hand_position))
    /\ pc' = "returned"
    /\ UNCHANGED <<args, genVars, pairVars>>

CallGetOpenStrings ==
    /\ pc = "call"
    /\ op' = "get_open_strings"
    /\ result' = IF ensure_is_valid_raises(args.hand_position)
                 THEN Raised
                 ELSE Returned(get_open_strings(args.hand_position))
    /\ pc' = "returned"
    /\ UNCHANGED <<args, genVars, pairVars>>

NextHand == CallIsValid \/ CallGetNotes \/ CallGetOpenStrings

SpecHand == InitHand /\ [][NextHand]_vars

\* ------------------------------------------------------------------------
\* C2: is_valid(h) is true exactly when h has at most 4 placements, no two
\* of its placements are on the same string, and the largest fret number
\* minus the smallest is at most 2; the empty hand position is valid.
\* ------------------------------------------------------------------------
C2_IsValidIff ==
    op = "is_valid" =>
        LET h == args.hand_position
        IN  /\ result.value =
                  (/\ Cardinality(h) <= 4
                   /\ \A p \in h, q \in h : p # q => p.string # q.string
                   /\ \A p \in h, q \in h : p.fret - q.fret <= 2)
            /\ (h = {} => result.value = TRUE)

\* is_valid has answered on a hand position that fails one rule only
C2_Witness ==
    /\ op = "is_valid"
    /\ result.value = FALSE
    /\ Cardinality(args.hand_position) = 3
    /\ Cardinality({p.string : p \in args.hand_position}) = 3
    /\ {p.fret : p \in args.hand_position} = {0, 3}

\* ------------------------------------------------------------------------
\* C7: on a valid hand position get_notes returns 6 notes, the k-th being
\* the note of string 7-k (strings 6, 5, 4, 3, 2, 1): the open pitch of the
\* string when the hand does not touch it, the open pitch plus f + 1 when it
\* touches it at fret f; every note's pitch class is its pitch modulo 12.
\* ------------------------------------------------------------------------
C7_GetNotes ==
    (op = "get_notes" /\ is_valid(args.hand_position)) =>
        LET h == args.hand_position
            notes == result.value
        IN  /\ ~result.raised
            /\ Len(notes) = 6
            /\ \A k \in 1..6 :
                  LET string == 7 - k
                  IN  /\ (\A f \in 0..MaxQueryFret :
                             Placement(string, f) \in h =>
                                 notes[k].pitch = STRING_NUMBER_TO_NOTE[string] + f + 1)
                      /\ ((\A p \in h : p.string # string) =>
                             notes[k].pitch = STRING_NUMBER_TO_NOTE[string])
                      /\ notes[k].scale_degree = notes[k].pitch % 12

\* get_notes returned for a four-finger hand whose top string is fretted
\* high enough for its pitch to wrap past an octave
C7_Witness ==
    /\ op = "get_notes"
    /\ ~result.raised
    /\ Cardinality(args.hand_position) = 4
    /\ Placement(1, 3) \in args.hand_position
    /\ result.value[6] = [pitch |-> 32, scale_degree |-> 8]

\* ------------------------------------------------------------------------
\* work_out_successful_pairs_of_hand_positions, one step per (x, y), then
\* organise_pairs_and_order_them on its result
\* ------------------------------------------------------------------------
\* valid hand positions the argument is drawn from.  HandA completes the
\* twelve pitch classes with HandB and with HandC; HandD and the empty hand
\* complete them with nothing.  The lowest notes of HandA and the empty
\* hand are the same, and so are those of HandC and HandD.
HandA == {Placement(1, 2), Placement(3, 2), Placement(4, 0), Placement(5, 2)}

HandB == {Placement(1, 0), Placement(2, 1), Placement(3, 0), Placement(6, 1)}

HandC == {Placement(1, 1), Placement(2, 1), Placement(3, 0), Placement(6, 0)}

HandD == {Placement(6, 0)}

HandPool == {HandA, HandB, HandC, HandD, {}}

\* the sequences that list every element of S once
RECURSIVE Orders(_)
Orders(S) ==
    IF S = {} THEN {<<>>}
    ELSE UNION {{<<e>> \o o : o \in Orders(S \ {e})} : e \in S}

\* the loop over existing_pair (guitars.py:410-413)
already_found(successful, pair) == \E existing_pair \in successful : PairEq(existing_pair, pair)

InitPairs ==
    /\ GenIdle
    /\ CallIdle
    /\ hand_positions \in SUBSET HandPool
    /\ order \in Orders(hand_positions)
    /\ x = 1
    /\ y = 1
    /\ successful_hand_positions = {}
    /\ all_good_solutions = <<>>
    /\ organised_solutions = <<>>
    /\ pc = IF hand_positions = {} THEN "paired" ELSE "pairs"

\* the body of the inner loop for x = order[x], y = order[y]
TestPair ==
    /\ pc = "pairs"
    /\ LET pair == PairOfHandPositions(order[x], order[y])
       IN  successful_hand_positions' =
               IF produces_all_the_notes(pair)
                  /\ ~already_found(successful_hand_positions, pair)
               THEN successful_hand_positions \cup {pair}
               ELSE successful_hand_positions
    /\ IF y < Len(order)
       THEN /\ y' = y + 1
            /\ UNCHANGED <<x, pc>>
       ELSE /\ y' = 1
            /\ x' = x + 1
            /\ pc' = IF x < Len(order) THEN "pairs" ELSE "paired"
    /\ UNCHANGED <<hand_positions, order, all_good_solutions, organised_solutions,
                   genVars, callVars>>

\* organise_pairs_and_order_them on the solutions, listed in any order
OrganisePairs ==
    /\ pc = "paired"
    /\ \E pairs_of_hand_positions \in Orders(successful_hand_positions) :
          organised_solutions' =
              [k \in 1..Len(pairs_of_hand_positions) |->
                   organise_with_lowest_hand_first(pairs_of_hand_positions[k])]
    /\ pc' = "organised"
    /\ UNCHANGED <<hand_positions, order, x, y, successful_hand_positions,
                   all_good_solutions, genVars, callVars>>

NextPairs == TestPair \/ OrganisePairs

SpecPairs == InitPairs /\ [][NextPairs]_vars

\* the steps of the pairing loop end on the value of the whole function,
\* each hand position taking its place in the iteration as its position
PairingStepsComputeTheFunction ==
    pc = "paired" =>
        successful_hand_positions =
            work_out_successful_pairs_of_hand_positions(
                hand_positions,
                [h \in hand_positions |-> CHOOSE k \in 1..Len(order) : order[k] = h])

\* ------------------------------------------------------------------------
\* C3: the result of the pairing search holds a pair equal, as an unordered
\* pair, to {a, b} exactly when a and b are in the argument and the twelve
\* pitches they sound cover the twelve pitch classes.  While the loop runs
\* nothing incomplete is stored; when it has returned no complete pair of
\* the argument is missing.
\* ------------------------------------------------------------------------
C3_PairsExactlyTheComplete ==
    LET Sounded(h, s) ==
            IF \E p \in h : p.string = s
            THEN STRING_NUMBER_TO_NOTE[s] + (CHOOSE p \in h : p.string = s).fret + 1
            ELSE STRING_NUMBER_TO_NOTE[s]
        Classes(h) == {Sounded(h, s) % 12 : s \in 1..6}
        Complete(a, b) == Classes(a) \cup Classes(b) = 0..11
        Stored(a, b) ==
            \E p \in successful_hand_positions :
                {p.first_hand_position, p.second_hand_position} = {a, b}
    IN  /\ \A p \in successful_hand_positions :
              /\ p.first_hand_position \in hand_positions
              /\ p.second_hand_position \in hand_positions
              /\ Complete(p.first_hand_position, p.second_hand_position)
        /\ pc \in {"paired", "organised"} =>
              \A a \in HandPool, b \in HandPool :
                  Stored(a, b) <=>
                      (a \in hand_positions /\ b \in hand_positions /\ Complete(a, b))

\* the search has returned on an argument with a complete pair and a hand
\* position that completes nothing
C3_Witness ==
    /\ pc = "paired"
    /\ hand_positions = {HandA, HandB, HandD}
    /\ successful_hand_positions = {PairOfHandPositions(HandB, HandA)}

\* ------------------------------------------------------------------------
\* C4: at every step of the pairing loop and in its result no two stored
\* pairs are equal as unordered pairs, in whatever order the set is
\* iterated; once the loop has passed a complete (x, y) and its mirror
\* (y, x), and in the result, that unordered pair is stored exactly once.
\* ------------------------------------------------------------------------
C4_NoDuplicatePairs ==
    LET Members(p) == {p.first_hand_position, p.second_hand_position}
    IN  /\ \A p \in successful_hand_positions, q \in successful_hand_positions :
              p # q => Members(p) # Members(q)
        /\ pc \in {"paired", "organised"} =>
              \A a \in hand_positions, b \in hand_positions :
                  produces_all_the_notes(PairOfHandPositions(a, b)) =>
                      Cardinality({p \in successful_hand_positions : Members(p) = {a, b}}) = 1

\* the loop has passed (HandB, HandA) and then (HandA, HandB)
C4_Witness ==
    /\ pc = "paired"
    /\ order = <<HandB, HandC, HandA>>
    /\ successful_hand_positions =
           {PairOfHandPositions(HandB, HandA), PairOfHandPositions(HandC, HandA)}

\* ------------------------------------------------------------------------
\* C9: the pairing search never stores a pair whose two members are the
\* same hand position, although it tests every (x, x).
\* ------------------------------------------------------------------------
C9_NoSelfPairs ==
    \A p \in successful_hand_positions :
        p.first_hand_position # p.second_hand_position

\* the loop has tested each hand position against itself, among them hand
\* positions of six distinct notes, and has found a complete pair
C9_Witness ==
    /\ pc = "paired"
    /\ {HandA, HandC, HandD} \subseteq hand_positions
    /\ successful_hand_positions # {}

\* ------------------------------------------------------------------------
\* C10: the members of a stored solution pair have different lowest
\* pitches, so organise_with_lowest_hand_first gives one ordered result for
\* (x, y) and for (y, x), its first member is the one with the strictly
\* lower lowest pitch, and organising the result again changes nothing;
\* the organised list of the solutions consists of such pairs.
\* ------------------------------------------------------------------------
C10_SolutionsHaveNoTie ==
    LET Sounded(h, s) ==
            IF \E p \in h : p.string = s
            THEN STRING_NUMBER_TO_NOTE[s] + (CHOOSE p \in h : p.string = s).fret + 1
            ELSE STRING_NUMBER_TO_NOTE[s]
        Lowest(h) == SetMin({Sounded(h, s) : s \in 1..6})
    IN  /\ \A p \in successful_hand_positions :
              LET a == p.first_hand_position
                  b == p.second_hand_position
                  organised == organise_with_lowest_hand_first(PairOfHandPositions(a, b))
              IN  /\ Lowest(a) # Lowest(b)
                  /\ organised = organise_with_lowest_hand_first(PairOfHandPositions(b, a))
                  /\ Lowest(organised.first_hand_position)
                         < Lowest(organised.second_hand_position)
                  /\ {organised.first_hand_position, organised.second_hand_position} = {a, b}
                  /\ organise_with_lowest_hand_first(organised) = organised
        /\ pc = "organised" =>
              /\ Len(organised_solutions) = Cardinality(successful_hand_positions)
              /\ \A k \in 1..Len(organised_solutions) :
                    /\ Lowest(organised_solutions[k].first_hand_position)
                           < Lowest(organised_solutions[k].second_hand_position)
                    /\ \E p \in successful_hand_positions :
                          {p.first_hand_position, p.second_hand_position}
                              = {organised_solutions[k].first_hand_position,
                                 organised_solutions[k].second_hand_position}

\* a solution stored with the higher hand first has been organised
C10_Witness ==
    /\ pc = "organised"
    /\ successful_hand_positions = {PairOfHandPositions(HandB, HandA)}
    /\ organised_solutions = <<PairOfHandPositions(HandA, HandB)>>

\* ------------------------------------------------------------------------
\* organise_with_lowest_hand_first called on a pair of valid hand positions
\* ------------------------------------------------------------------------
OrganiseHands == HandPool \cup {{Placement(s, f)} : s \in 1..6, f \in 0..MaxQueryFret}

InitOrganise ==
    /\ pc = "call"
    /\ GenIdle
    /\ PairIdle
    /\ op = "none"
    /\ args \in {[pair |-> PairOfHandPositions(a, b)] : a \in OrganiseHands, b \in OrganiseHands}
    /\ result = NoResult

CallOrganise ==
    /\ pc = "call"
    /\ op' = "organise_with_lowest_hand_first"
    /\ result' = Returned(organise_with_lowest_hand_first(args.pair))
    /\ pc' = "returned"
    /\ UNCHANGED <<args, genVars, pairVars>>

NextOrganise == CallOrganise

SpecOrganise == InitOrganise /\ [][NextOrganise]_vars

\* ------------------------------------------------------------------------
\* C6: when the lowest sounded pitch of A is strictly below that of B,
\* organise_with_lowest_hand_first returns the pair (A, B), called on
\* (A, B) and called on (B, A); the pair it returns has the members of the
\* pair it was given.
\* ------------------------------------------------------------------------
C6_LowestHandFirst ==
    op = "organise_with_lowest_hand_first" =>
        LET Sounded(h, s) ==
                IF \E p \in h : p.string = s
                THEN STRING_NUMBER_TO_NOTE[s] + (CHOOSE p \in h : p.string = s).fret + 1
                ELSE STRING_NUMBER_TO_NOTE[s]
            Lowest(h) == SetMin({Sounded(h, s) : s \in 1..6})
            first == args.pair.first_hand_position
            second == args.pair.second_hand_position
        IN  /\ Lowest(first) < Lowest(second) =>
                  result.value = [first_hand_position |-> first, second_hand_position |-> second]
            /\ Lowest(second) < Lowest(first) =>
                  result.value = [first_hand_position |-> second, second_hand_position |-> first]
            /\ Lowest(first) # Lowest(second) =>
                  {result.value.first_hand_position, result.value.second_hand_position}
                      = {first, second}

\* called on (B, A) with A the lower hand, it returned (A, B)
C6_Witness ==
    /\ op = "organise_with_lowest_hand_first"
    /\ args.pair = PairOfHandPositions(HandB, HandA)
    /\ result.value = PairOfHandPositions(HandA, HandB)

\* ------------------------------------------------------------------------
\* filter_out_solutions_without_the_right_open_strings called on a list of
\* pairs of valid hand positions and a set of strings
\* ------------------------------------------------------------------------
RECURSIVE ListsUpTo(_, _)
ListsUpTo(S, n) ==
    IF n = 0 THEN {<<>>}
    ELSE LET shorter == ListsUpTo(S, n - 1)
         IN  shorter \cup {Append(l, e) : l \in {m \in shorter : Len(m) = n - 1}, e \in S}

FilterHands == {HandA, HandB, HandD, {}}

InitFilter ==
    /\ pc = "call"
    /\ GenIdle
    /\ PairIdle
    /\ op = "none"
    /\ \E l \in ListsUpTo({PairOfHandPositions(a, b) : a \in FilterHands, b \in FilterHands},
                          MaxSolutions),
          r \in SUBSET (1..6) :
          args = [solutions |-> l, desired_open_strings |-> r]
    /\ result = NoResult

CallFilter ==
    /\ pc = "call"
    /\ op' = "filter_out_solutions_without_the_right_open_strings"
    /\ result' = Returned(filter_out_solutions_without_the_right_open_strings(
                              args.solutions, args.desired_open_strings))
    /\ pc' = "returned"
    /\ UNCHANGED <<args, genVars, pairVars>>

NextFilter == CallFilter

SpecFilter == InitFilter /\ [][NextFilter]_vars

\* ------------------------------------------------------------------------
\* C5: the open-string filter keeps exactly the pairs of its list whose
\* open strings, those of the first hand position united with those of the
\* second, are the required set: such a pair is in the result as often as
\* in the list, any other pair is not in the result at all.
\* ------------------------------------------------------------------------
C5_FilterKeepsExactMatches ==
    op = "filter_out_solutions_without_the_right_open_strings" =>
        LET Open(h) == {s \in 1..6 : \A p \in h : p.string # s}
            OpenOfPair(q) == Open(q.first_hand_position) \cup Open(q.second_hand_position)
            Count(l, q) == Cardinality({k \in 1..Len(l) : l[k] = q})
        IN  \A q \in Range(args.solutions) \cup Range(result.value) :
                Count(result.value, q) =
                    IF OpenOfPair(q) = args.desired_open_strings
                    THEN Count(args.solutions, q)
                    ELSE 0

\* the filter kept the pair whose open strings are the required ones and
\* dropped a pair whose open strings are a strict superset of them
C5_Witness ==
    /\ op = "filter_out_solutions_without_the_right_open_strings"
    /\ args.solutions = <<PairOfHandPositions(HandA, HandB), PairOfHandPositions(HandD, {})>>
    /\ args.desired_open_strings = {2, 4, 5, 6}
    /\ result.value = <<PairOfHandPositions(HandA, HandB)>>

\* ------------------------------------------------------------------------
\* main() of main.py, one step per stage, next to the note queries made on
\* a raw set of placements
\* ------------------------------------------------------------------------
InitMain ==
    /\ pc = "main"
    /\ number_of_frets_to_consider \in 0..MaxMainFrets
    /\ lowest_fret = 0
    /\ fingers = 0
    /\ window_hand_positions = {}
    /\ all_hand_positions = {}
    /\ PairIdle
    /\ op = "main"
    /\ args = [none |-> 0]
    /\ result = NoResult

\* main.py:17-21
MainGenerate ==
    /\ pc = "main"
    /\ all_hand_positions' = generate_all_hand_positions(number_of_frets_to_consider)
    /\ pc' = IF all_hand_positions' = {} THEN "done" ELSE "no_repeats"
    /\ UNCHANGED <<number_of_frets_to_consider, lowest_fret, fingers,
                   window_hand_positions, pairVars, callVars>>

\* main.py:23-25; get_number_of_distinct_notes asks every hand for its notes
MainFilterRepeated ==
    /\ pc = "no_repeats"
    /\ IF \E h \in all_hand_positions : ensure_is_valid_raises(h)
       THEN /\ pc' = "crashed"
            /\ result' = Raised
            /\ UNCHANGED hand_positions
       ELSE /\ pc' = "search"
            /\ hand_positions' = filter_out_hand_positions_with_repeated_notes(all_hand_positions)
            /\ UNCHANGED result
    /\ UNCHANGED <<order, x, y, successful_hand_positions, all_good_solutions,
                   organised_solutions, op, args, genVars>>

\* main.py:31-33; the set is iterated by IterationRank
MainSearch ==
    /\ pc = "search"
    /\ IF \E h \in hand_positions : ensure_is_valid_raises(h)
       THEN /\ pc' = "crashed"
            /\ result' = Raised
            /\ UNCHANGED successful_hand_positions
       ELSE /\ pc' = "open_strings"
            /\ successful_hand_positions' =
                   work_out_successful_pairs_of_hand_positions(
                       hand_positions, [h \in hand_positions |-> IterationRank(h)])
            /\ UNCHANGED result
    /\ UNCHANGED <<hand_positions, order, x, y, all_good_solutions,
                   organised_solutions, op, args, genVars>>

\* main.py:35-52; both calls iterate the same set of solutions
MainFilterOpenStrings ==
    /\ pc = "open_strings"
    /\ IF \E pair \in successful_hand_positions :
             \/ ensure_is_valid_raises(pair.first_hand_position)
             \/ ensure_is_valid_raises(pair.second_hand_position)
       THEN /\ pc' = "crashed"
            /\ result' = Raised
            /\ UNCHANGED all_good_solutions
       ELSE /\ pc' = "organise"
            /\ LET solutions == ListOf(successful_hand_positions)
               IN  all_good_solutions' =
                       filter_out_solutions_without_the_right_open_strings(solutions, 2..6)
                         \o filter_out_solutions_without_the_right_open_strings(solutions, 1..5)
            /\ UNCHANGED result
    /\ UNCHANGED <<hand_positions, order, x, y, successful_hand_positions,
                   organised_solutions, op, args, genVars>>

\* main.py:54, organise_pairs_and_order_them (main.py:78-88)
MainOrganise ==
    /\ pc = "organise"
    /\ IF \E k \in 1..Len(all_good_solutions) :
             \/ ensure_is_valid_raises(all_good_solutions[k].first_hand_position)
             \/ ensure_is_valid_raises(all_good_solutions[k].second_hand_position)
       THEN /\ pc' = "crashed"
            /\ result' = Raised
            /\ UNCHANGED organised_solutions
       ELSE /\ pc' = "report"
            /\ organised_solutions' =
                   [k \in 1..Len(all_good_solutions) |->
                        organise_with_lowest_hand_first(all_good_solutions[k])]
            /\ UNCHANGED result
    /\ UNCHANGED <<hand_positions, order, x, y, successful_hand_positions,
                   all_good_solutions, op, args, genVars>>

\* main.py:56-75; writing a solution renders the notes of both its hands
MainReport ==
    /\ pc = "report"
    /\ IF \E k \in 1..Len(organised_solutions) :
             \/ ensure_is_valid_raises(organised_solutions[k].first_hand_position)
             \/ ensure_is_valid_raises(organised_solutions[k].second_hand_position)
       THEN /\ pc' = "crashed"
            /\ result' = Raised
       ELSE /\ pc' = "done"
            /\ result' = Returned("None")
    /\ UNCHANGED <<op, args, genVars, pairVars>>

NextMain ==
    \/ MainGenerate
    \/ MainFilterRepeated
    \/ MainSearch
    \/ MainFilterOpenStrings
    \/ MainOrganise
    \/ MainReport
    \/ CallGetNotes
    \/ CallGetOpenStrings

SpecMain == (InitMain \/ InitHand) /\ [][NextMain]_vars

\* ------------------------------------------------------------------------
\* C8: get_notes and get_open_strings raise on every hand position that
\* has more than 4 placements, two placements on one string or a fret span
\* above 2, and return on every other one; and main(), which runs the
\* note filter, the pairing search, the open-string filter and the
\* ordering on the output of generate_all_hand_positions, never raises.
\* ------------------------------------------------------------------------
C8_RaisesExactlyOnInvalid ==
    /\ op \in {"get_notes", "get_open_strings"} =>
          LET h == args.hand_position
          IN  result.raised <=>
                  \/ Cardinality(h) > 4
                  \/ \E p \in h, q \in h : p # q /\ p.string = q.string
                  \/ \E p \in h, q \in h : p.fret - q.fret > 2
    /\ op = "main" =>
          /\ ~result.raised
          /\ pc # "crashed"
          /\ pc \notin {"main"} => \A h \in all_hand_positions : ~ensure_is_valid_raises(h)

\* the driver has gone through every stage with solutions left to organise
C8_Witness ==
    /\ op = "main"
    /\ pc = "done"
    /\ Len(organised_solutions) > 0
    /\ \E k \in 1..Len(organised_solutions) : organised_solutions[k] # all_good_solutions[k]

====
